---- MODULE Spec2Model ----
(***************************************************************************)
(* VirtualDAQ (pyratk/acquisition/virtual_daq.py): playback of a recorded  *)
(* dataset by a background sampling thread and a caller (UI) thread over   *)
(* shared, unlocked fields.  A statement is one step; a statement that     *)
(* reads shared fields and then writes one (lines 82, 94, 100) is split    *)
(* into its reads and its write, so that the other thread can run between  *)
(* them.  DAQ.close, DAQ.run and DAQ.sample_loop (pyratk/acquisition/      *)
(* daq.py) and TimeSeries (pyratk/datatypes/ts_data.py) are modelled from  *)
(* their specification: close stops and joins the sampling thread, run     *)
(* starts a fresh one playing, the ring evicts its oldest item when full.  *)
(***************************************************************************)
EXTENDS Integers, Sequences, FiniteSets, TLC

\* ------------------------------------------------------------------ bounds
\* length of the TimeSeries ring created by load_dataset (4096 in the source)
Capacity == 1
\* cap on len(self.buffer): no tick starts once this many pairs are stored or
\* in flight (the list itself is unbounded in the source)
MaxBuffer == 2

\* largest |stride| of the repeated ticks of SpecCursor
MaxStride == 3

\* ------------------------------------------------------------------ inputs
\* the recorded datasets that can be handed to load_dataset, by name
Stores == {"A", "B"}

\* ds.shape[0] of each dataset ("E" is an empty recording)
StoreLen == [A |-> 2, B |-> 1, E |-> 0, C |-> 3, D |-> 4, F |-> 6]

\* ds.attrs of each dataset
StoreAttrs ==
    [A |-> [sample_rate |-> 2, sample_size |-> 4, daq_type |-> "nidaq", num_channels |-> 1],
     B |-> [sample_rate |-> 1, sample_size |-> 3, daq_type |-> "mcdaq", num_channels |-> 2],
     E |-> [sample_rate |-> 2, sample_size |-> 2, daq_type |-> "nidaq", num_channels |-> 1],
     C |-> [sample_rate |-> 2, sample_size |-> 4, daq_type |-> "nidaq", num_channels |-> 1],
     D |-> [sample_rate |-> 2, sample_size |-> 4, daq_type |-> "nidaq", num_channels |-> 1],
     F |-> [sample_rate |-> 2, sample_size |-> 4, daq_type |-> "nidaq", num_channels |-> 1]]

\* line 56: the objects for which isinstance(ds, h5py Dataset) holds
Datasets == DOMAIN StoreLen

\* arguments of load_dataset: a dataset, or an object that is not one
LoadArgs == Stores \cup {"notds"}

\* arguments of get_samples calls made by the caller thread (sample_loop
\* calls it with the defaults, stride = 1 and loop = -1)
Strides == {1, -1}
Loops == {0, 1, 5}

Threads == {"ui", "worker"}

\* ds[i]: the chunk recorded at index i of dataset d
Chunk(d, i) == <<d, i>>

\* self.data = None
NoData == <<>>

\* the threads of the plotting/UI code that wait on data_available
Consumers == {"c1", "c2"}

\* attributes before any load (all None)
NoAttrs == [sample_rate |-> 0, sample_size |-> 0, daq_type |-> "none", num_channels |-> 0]

\* the frame of a thread that is not inside get_samples
NoFrame == [stride |-> 1, loop |-> -1, chunk |-> NoData, idx |-> 0, fault |-> FALSE]

VARIABLES
    ds,             \* self.ds: "none" or the name of the loaded dataset
    sample_index,   \* self.sample_index
    data,           \* self.data
    buffer,         \* self.buffer: list of (data, sample_index) pairs
    ts_buffer,      \* self.ts_buffer: [exists, items]
    data_available, \* self.data_available (threading.Event)
    paused,         \* self.paused
    running,        \* self.running (read by sample_loop)
    reset_flag,     \* self.reset_flag
    attrs,          \* sample_rate, sample_chunk_size, daq_type, num_channels
    sample_period,  \* self.sample_period (0: None)
    pc,             \* position of each thread
    frame,          \* locals of the get_samples call of each thread
    arg,            \* argument of the load_dataset call in progress
    inLoad,         \* reset was called from load_dataset
    outcome,        \* how the last call of each thread ended: "none" while it
                    \* runs, the exception it raised, or the value it returned
    raised,         \* history: the pair appended by the tick that last set the event
    steps,          \* history: single steps completed since a fresh load, -1 otherwise
    waiters         \* the consumers blocked in data_available.wait(), or woken by it

vars == <<ds, sample_index, data, buffer, ts_buffer, data_available, paused,
          running, reset_flag, attrs, sample_period, pc, frame, arg, inLoad,
          outcome, raised, steps, waiters>>

shared == <<ds, sample_index, data, buffer, ts_buffer, data_available, paused,
            running, reset_flag, attrs, sample_period>>

Init ==
    /\ ds = "none"
    /\ sample_index = 0
    /\ data = NoData
    /\ buffer = <<>>
    /\ ts_buffer = [exists |-> FALSE, items |-> <<>>]
    /\ data_available = FALSE
    /\ paused = TRUE
    /\ running = FALSE
    /\ reset_flag = FALSE
    /\ attrs = NoAttrs
    /\ sample_period = 0
    /\ pc = [t \in Threads |-> IF t = "worker" THEN "unstarted" ELSE "idle"]
    /\ frame = [t \in Threads |-> NoFrame]
    /\ arg = "none"
    /\ inLoad = FALSE
    /\ outcome = [t \in Threads |-> "none"]
    /\ raised = <<>>
    /\ steps = -1
    /\ waiters = [c \in Consumers |-> "away"]


\* ----------------------------------------------------------------- helpers
\* where a thread is when it is not inside a call
Home(t) == IF t = "worker" THEN "w_loop" ELSE "idle"

\* an exception leaves the call; uncaught in sample_loop it ends the thread
Raise(t, e) ==
    /\ pc' = [pc EXCEPT ![t] = IF t = "worker" THEN "exited" ELSE "idle"]
    /\ outcome' = [outcome EXCEPT ![t] = e]
    /\ frame' = [frame EXCEPT ![t] = NoFrame]
    /\ steps' = -1

Goto(t, p) == pc' = [pc EXCEPT ![t] = p]

\* positions of get_samples at which the pair of the tick is not yet appended
PreAppend == {"gs_check", "gs_fetch", "gs_store", "gs_pace", "gs_app_data",
              "gs_app_idx", "gs_app"}

\* positions inside get_samples
InGetSamples == PreAppend \cup {"gs_ts", "gs_set", "gs_adv_rd", "gs_adv_wr", "gs_ret"}

\* room for one more pair within MaxBuffer
Room == Len(buffer) + Cardinality({t \in Threads : pc[t] \in PreAppend}) < MaxBuffer

\* TimeSeries.append: drop the oldest item once the ring is full
RingAppend(items, x) ==
    IF Len(items) >= Capacity THEN Append(Tail(items), x) ELSE Append(items, x)

\* the cursor advanced without wrapping at the end of the dataset
AdvanceNoWrap(i, s, n) == i + s

\* line 100: (self.sample_index + stride) % self.ds.shape[0]
Advance(i, s, n) == (i + s) % n

\* (sample_index + stride) % shape[0] / stride < 1.0, with true division
MoreData(i, s, n) == IF s > 0 THEN ((i + s) % n) < s ELSE TRUE

\* ------------------------------------------------------------- get_samples
\* the caller thread calls get_samples(stride=s, loop=l)
get_samples_call(s, l) ==
    /\ pc["ui"] = "idle"
    /\ Room
    /\ Goto("ui", "gs_check")
    /\ frame' = [frame EXCEPT !["ui"] = [NoFrame EXCEPT !.stride = s, !.loop = l]]
    /\ outcome' = [outcome EXCEPT !["ui"] = "none"]
    /\ steps' = IF s = 1 /\ l = 0 THEN steps ELSE -1
    /\ UNCHANGED <<shared, arg, inLoad, raised, waiters>>

\* get_samples without the test of self.ds
get_samples_check_missing(t) ==
    /\ pc[t] = "gs_check"
    /\ Goto(t, "gs_fetch")
    /\ UNCHANGED <<shared, frame, arg, inLoad, outcome, raised, steps, waiters>>

\* line 78: if (self.ds)
get_samples_check(t) ==
    /\ pc[t] = "gs_check"
    /\ ds # "none"
    /\ Goto(t, "gs_fetch")
    /\ UNCHANGED <<shared, frame, arg, inLoad, outcome, raised, steps, waiters>>

\* a failing call that would raise the signal before its RuntimeError
get_samples_not_ready_late(t) ==
    /\ pc[t] = "gs_check"
    /\ ds = "none"
    /\ data_available' = TRUE
    /\ Raise(t, "RuntimeError")
    /\ UNCHANGED <<ds, sample_index, data, buffer, ts_buffer, paused, running,
                   reset_flag, attrs, sample_period, arg, inLoad, raised, waiters>>

\* lines 104-106: no dataset, raise RuntimeError
get_samples_not_ready(t) ==
    /\ pc[t] = "gs_check"
    /\ ds = "none"
    /\ Raise(t, "RuntimeError")
    /\ UNCHANGED <<shared, arg, inLoad, raised, waiters>>

\* line 82, right-hand side: self.ds[self.sample_index]; IndexError is caught
\* and printed (lines 83-84), and the call goes on
get_samples_fetch(t) ==
    /\ pc[t] = "gs_fetch"
    /\ IF sample_index >= 0 /\ sample_index < StoreLen[ds]
       THEN /\ frame' = [frame EXCEPT ![t].chunk = Chunk(ds, sample_index)]
            /\ Goto(t, "gs_store")
       ELSE /\ frame' = [frame EXCEPT ![t].fault = TRUE]
            /\ Goto(t, "gs_pace")
    /\ UNCHANGED <<shared, arg, inLoad, outcome, raised, steps, waiters>>

\* line 82, assignment: self.data = ...
get_samples_store(t) ==
    /\ pc[t] = "gs_store"
    /\ data' = frame[t].chunk
    /\ Goto(t, "gs_pace")
    /\ UNCHANGED <<ds, sample_index, buffer, ts_buffer, data_available, paused,
                   running, reset_flag, attrs, sample_period, frame, arg, inLoad,
                   outcome, raised, steps, waiters>>

\* lines 87-90: sleep a chunk period (loop = -1 or 1) or step (loop = 0);
\* sleeping None * playback_speed is a TypeError
get_samples_pace(t) ==
    /\ pc[t] = "gs_pace"
    /\ frame[t].loop \in {-1, 0, 1}
    /\ IF frame[t].loop # 0 /\ sample_period = 0
       THEN Raise(t, "TypeError")
       ELSE Goto(t, "gs_app_data") /\ UNCHANGED <<frame, outcome, steps, waiters>>
    /\ UNCHANGED <<shared, arg, inLoad, raised, waiters>>

\* get_samples without the else branch: any other loop value steps too
get_samples_bad_loop_accepted(t) ==
    /\ pc[t] = "gs_pace"
    /\ frame[t].loop \notin {-1, 0, 1}
    /\ Goto(t, "gs_app_data")
    /\ UNCHANGED <<shared, frame, arg, inLoad, outcome, raised, steps, waiters>>

\* lines 91-92: any other loop value, raise ValueError
get_samples_bad_loop(t) ==
    /\ pc[t] = "gs_pace"
    /\ frame[t].loop \notin {-1, 0, 1}
    /\ Raise(t, "ValueError")
    /\ UNCHANGED <<shared, arg, inLoad, raised, waiters>>

\* line 94: the tuple's first element, self.data
get_samples_append_data(t) ==
    /\ pc[t] = "gs_app_data"
    /\ frame' = [frame EXCEPT ![t].chunk = data]
    /\ Goto(t, "gs_app_idx")
    /\ UNCHANGED <<shared, arg, inLoad, outcome, raised, steps, waiters>>

\* line 94: the tuple's second element, self.sample_index
get_samples_append_index(t) ==
    /\ pc[t] = "gs_app_idx"
    /\ frame' = [frame EXCEPT ![t].idx = sample_index]
    /\ Goto(t, "gs_app")
    /\ UNCHANGED <<shared, arg, inLoad, outcome, raised, steps, waiters>>

\* line 94: self.buffer.append(...)
get_samples_append(t) ==
    /\ pc[t] = "gs_app"
    /\ buffer' = Append(buffer, <<frame[t].chunk, frame[t].idx>>)
    /\ Goto(t, "gs_ts")
    /\ UNCHANGED <<ds, sample_index, data, ts_buffer, data_available, paused,
                   running, reset_flag, attrs, sample_period, frame, arg, inLoad,
                   outcome, raised, steps, waiters>>

\* line 95: self.ts_buffer.append(self.data); the attribute exists only after
\* load_dataset has reached line 74
get_samples_ts_append(t) ==
    /\ pc[t] = "gs_ts"
    /\ IF ts_buffer.exists
       THEN /\ ts_buffer' = [ts_buffer EXCEPT !.items = RingAppend(@, data)]
            /\ Goto(t, "gs_set")
            /\ UNCHANGED <<frame, outcome, steps>>
       ELSE /\ Raise(t, "AttributeError")
            /\ UNCHANGED ts_buffer
    /\ UNCHANGED <<ds, sample_index, data, buffer, data_available, paused,
                   running, reset_flag, attrs, sample_period, arg, inLoad, raised, waiters>>

\* line 97: self.data_available.set()
\* Event.set() notifies every thread blocked in wait()
WakeAll == [c \in Consumers |-> IF waiters[c] = "waiting" THEN "woken" ELSE waiters[c]]

get_samples_set(t) ==
    /\ pc[t] = "gs_set"
    /\ data_available' = TRUE
    /\ raised' = <<frame[t].chunk, frame[t].idx>>
    /\ waiters' = WakeAll
    /\ Goto(t, "gs_adv_rd")
    /\ UNCHANGED <<ds, sample_index, data, buffer, ts_buffer, paused, running,
                   reset_flag, attrs, sample_period, frame, arg, inLoad, outcome, steps>>

\* line 100, right-hand side: (self.sample_index + stride) % self.ds.shape[0]
get_samples_advance_read(t) ==
    /\ pc[t] = "gs_adv_rd"
    /\ IF StoreLen[ds] = 0
       THEN Raise(t, "ZeroDivisionError")
       ELSE /\ frame' = [frame EXCEPT
                           ![t].idx = Advance(sample_index, frame[t].stride, StoreLen[ds])]
            /\ Goto(t, "gs_adv_wr")
            /\ UNCHANGED <<outcome, steps>>
    /\ UNCHANGED <<shared, arg, inLoad, raised, waiters>>

\* line 100, assignment: self.sample_index = ...
get_samples_advance_write(t) ==
    /\ pc[t] = "gs_adv_wr"
    /\ sample_index' = frame[t].idx
    /\ Goto(t, "gs_ret")
    /\ UNCHANGED <<ds, data, buffer, ts_buffer, data_available, paused, running,
                   reset_flag, attrs, sample_period, frame, arg, inLoad, outcome, raised, steps, waiters>>

\* line 103: return (self.sample_index + stride) % self.ds.shape[0] / stride < 1.0
get_samples_return(t) ==
    /\ pc[t] = "gs_ret"
    /\ IF StoreLen[ds] = 0 \/ frame[t].stride = 0
       THEN Raise(t, "ZeroDivisionError")
       ELSE /\ Goto(t, Home(t))
            /\ frame' = [frame EXCEPT ![t] = NoFrame]
            /\ outcome' = IF t = "worker" THEN outcome  \* sample_loop drops it
                           ELSE [outcome EXCEPT ![t] =
                                   IF MoreData(sample_index, frame[t].stride, StoreLen[ds])
                                   THEN "True" ELSE "False"]
            /\ steps' = IF t = "ui" /\ steps >= 0 THEN steps + 1 ELSE steps
    /\ UNCHANGED <<shared, arg, inLoad, raised, waiters>>

get_samples(t) ==
    \/ get_samples_check(t)
    \/ get_samples_not_ready(t)
    \/ get_samples_fetch(t)
    \/ get_samples_store(t)
    \/ get_samples_pace(t)
    \/ get_samples_bad_loop(t)
    \/ get_samples_append_data(t)
    \/ get_samples_append_index(t)
    \/ get_samples_append(t)
    \/ get_samples_ts_append(t)
    \/ get_samples_set(t)
    \/ get_samples_advance_read(t)
    \/ get_samples_advance_write(t)
    \/ get_samples_return(t)


\* ------------------------------------------------------------ close and run
\* DAQ.close, first half: ask the sampling thread to stop
close(t) ==
    /\ pc[t] = "r_close"
    /\ running' = FALSE
    /\ Goto(t, "r_join")
    /\ UNCHANGED <<ds, sample_index, data, buffer, ts_buffer, data_available,
                   paused, reset_flag, attrs, sample_period, frame, arg, inLoad,
                   outcome, raised, steps, waiters>>

\* DAQ.run: start a fresh sampling thread, playing
run(t) ==
    /\ pc[t] = "r_run"
    /\ running' = TRUE
    /\ paused' = FALSE
    /\ UNCHANGED <<ds, sample_index, data, buffer, ts_buffer, data_available,
                   reset_flag, attrs, sample_period, frame, arg, inLoad, raised, steps, waiters>>

\* ------------------------------------------------------------------- reset
\* reset with the clear and the rewind ahead of close()
ResetOrderClearFirst == <<"r_clear", "r_index", "r_close", "r_flag", "r_run">>

\* lines 110-114, in the order they are executed
ResetOrder == <<"r_close", "r_clear", "r_index", "r_flag", "r_run">>

\* the position after line p of reset; past the last line reset returns, to
\* line 58 of load_dataset or to the caller
ResetAfter(p) ==
    LET k == CHOOSE i \in 1..Len(ResetOrder) : ResetOrder[i] = p
    IN  IF k < Len(ResetOrder) THEN ResetOrder[k + 1]
        ELSE IF inLoad THEN "l_ds" ELSE "idle"

\* DAQ.close, second half: join; close returns once the sampling thread has
\* exited (a thread that was never started is not joined), and reset goes on
\* to the line after its call of close
close_join(t) ==
    /\ pc[t] = "r_join"
    /\ pc["worker"] \in {"unstarted", "exited"}
    /\ Goto(t, ResetAfter("r_close"))
    /\ UNCHANGED <<shared, frame, arg, inLoad, outcome, raised, steps, waiters>>

\* the caller thread calls reset()
reset_call ==
    /\ pc["ui"] = "idle"
    /\ Goto("ui", ResetOrder[1])
    /\ outcome' = [outcome EXCEPT !["ui"] = "none"]
    /\ steps' = -1
    /\ UNCHANGED <<shared, frame, arg, inLoad, raised, waiters>>

\* line 111: self.buffer.clear()
reset_clear(t) ==
    /\ pc[t] = "r_clear"
    /\ buffer' = <<>>
    /\ Goto(t, ResetAfter("r_clear"))
    /\ steps' = IF inLoad THEN 0 ELSE -1
    /\ UNCHANGED <<ds, sample_index, data, ts_buffer, data_available, paused,
                   running, reset_flag, attrs, sample_period, frame, arg, inLoad,
                   outcome, raised, waiters>>

\* line 112: self.sample_index = 0
reset_index(t) ==
    /\ pc[t] = "r_index"
    /\ sample_index' = 0
    /\ Goto(t, ResetAfter("r_index"))
    /\ UNCHANGED <<ds, data, buffer, ts_buffer, data_available, paused, running,
                   reset_flag, attrs, sample_period, frame, arg, inLoad, outcome, raised, steps, waiters>>

\* line 113: self.reset_flag = True
reset_set_flag(t) ==
    /\ pc[t] = "r_flag"
    /\ reset_flag' = TRUE
    /\ Goto(t, ResetAfter("r_flag"))
    /\ UNCHANGED <<ds, sample_index, data, buffer, ts_buffer, data_available,
                   paused, running, attrs, sample_period, frame, arg, inLoad,
                   outcome, raised, steps, waiters>>

\* line 114: self.run()
reset_run(t) ==
    /\ run(t)
    /\ pc' = [pc EXCEPT ![t] = ResetAfter("r_run"), !["worker"] = "w_loop"]
    /\ outcome' = [outcome EXCEPT !["worker"] = "none"]

reset(t) ==
    \/ close(t)
    \/ close_join(t)
    \/ reset_clear(t)
    \/ reset_index(t)
    \/ reset_set_flag(t)
    \/ reset_run(t)

\* ------------------------------------------------------------ load_dataset
\* the caller thread calls load_dataset(a)
load_dataset_call(a) ==
    /\ pc["ui"] = "idle"
    /\ Goto("ui", "l_check")
    /\ arg' = a
    /\ outcome' = [outcome EXCEPT !["ui"] = "none"]
    /\ UNCHANGED <<shared, frame, inLoad, raised, steps, waiters>>

\* load_dataset without the isinstance test
load_dataset_check_missing(t) ==
    /\ pc[t] = "l_check"
    /\ Goto(t, ResetOrder[1])
    /\ inLoad' = TRUE
    /\ steps' = -1
    /\ UNCHANGED <<shared, frame, arg, outcome, raised, waiters>>

\* lines 56-57: a dataset, call self.reset()
load_dataset_check(t) ==
    /\ pc[t] = "l_check"
    /\ arg \in Datasets
    /\ Goto(t, ResetOrder[1])
    /\ inLoad' = TRUE
    /\ steps' = -1
    /\ UNCHANGED <<shared, frame, arg, outcome, raised, waiters>>

\* lines 60-62: not a dataset; raising the tuple is itself a TypeError
load_dataset_type_error(t) ==
    /\ pc[t] = "l_check"
    /\ arg \notin Datasets
    /\ Raise(t, "TypeError")
    /\ arg' = "none"
    /\ UNCHANGED <<shared, inLoad, raised, waiters>>

\* line 58: self.ds = ds
load_dataset_ds(t) ==
    /\ pc[t] = "l_ds"
    /\ ds' = arg
    /\ Goto(t, "l_index")
    /\ UNCHANGED <<sample_index, data, buffer, ts_buffer, data_available, paused,
                   running, reset_flag, attrs, sample_period, frame, arg, inLoad,
                   outcome, raised, steps, waiters>>

\* line 59: self.sample_index = 0
load_dataset_index(t) ==
    /\ pc[t] = "l_index"
    /\ sample_index' = 0
    /\ Goto(t, "l_attrs")
    /\ UNCHANGED <<ds, data, buffer, ts_buffer, data_available, paused, running,
                   reset_flag, attrs, sample_period, frame, arg, inLoad, outcome, raised, steps, waiters>>

\* lines 65-68: sample_rate, sample_chunk_size, daq_type, num_channels
load_dataset_attrs(t) ==
    /\ pc[t] = "l_attrs"
    /\ attrs' = StoreAttrs[arg]
    /\ Goto(t, "l_period")
    /\ UNCHANGED <<ds, sample_index, data, buffer, ts_buffer, data_available,
                   paused, running, reset_flag, sample_period, frame, arg,
                   inLoad, outcome, raised, steps, waiters>>

\* line 69: self.sample_period = self.sample_chunk_size / self.sample_rate
load_dataset_period(t) ==
    /\ pc[t] = "l_period"
    /\ sample_period' = attrs.sample_size \div attrs.sample_rate
    /\ Goto(t, "l_buf")
    /\ UNCHANGED <<ds, sample_index, data, buffer, ts_buffer, data_available,
                   paused, running, reset_flag, attrs, frame, arg, inLoad, outcome, raised, steps, waiters>>

\* lines 72-74: self.ts_buffer = TimeSeries(length, shape)
load_dataset_buffers(t) ==
    /\ pc[t] = "l_buf"
    /\ ts_buffer' = [exists |-> TRUE, items |-> <<>>]
    /\ Goto(t, "idle")
    /\ arg' = "none"
    /\ inLoad' = FALSE
    /\ UNCHANGED <<ds, sample_index, data, buffer, data_available, paused,
                   running, reset_flag, attrs, sample_period, frame, outcome,
                   raised, steps, waiters>>

load_dataset(t) ==
    \/ load_dataset_check(t)
    \/ load_dataset_type_error(t)
    \/ load_dataset_ds(t)
    \/ load_dataset_index(t)
    \/ load_dataset_attrs(t)
    \/ load_dataset_period(t)
    \/ load_dataset_buffers(t)

\* ------------------------------------------------------------- sample_loop
\* DAQ.sample_loop: while self.running, call get_samples() unless paused
sample_loop_exit ==
    /\ pc["worker"] = "w_loop"
    /\ ~running
    /\ Goto("worker", "exited")
    /\ UNCHANGED <<shared, frame, arg, inLoad, outcome, raised, steps, waiters>>

sample_loop_paused ==
    /\ pc["worker"] = "w_loop"
    /\ running
    /\ paused
    /\ UNCHANGED vars

sample_loop_tick ==
    /\ pc["worker"] = "w_loop"
    /\ running
    /\ ~paused
    /\ Room
    /\ Goto("worker", "gs_check")
    /\ frame' = [frame EXCEPT !["worker"] = NoFrame]
    /\ steps' = -1
    /\ UNCHANGED <<shared, arg, inLoad, outcome, raised, waiters>>

sample_loop ==
    \/ sample_loop_exit
    \/ sample_loop_paused
    \/ sample_loop_tick

\* --------------------------------------------------------- play, pause, wait
\* the play command: self.paused = False, once a dataset is loaded
play ==
    /\ ds # "none"
    /\ paused
    /\ paused' = FALSE
    /\ UNCHANGED <<ds, sample_index, data, buffer, ts_buffer, data_available,
                   running, reset_flag, attrs, sample_period, pc, frame, arg,
                   inLoad, outcome, raised, steps, waiters>>

\* the pause command: self.paused = True
pause ==
    /\ ~paused
    /\ paused' = TRUE
    /\ UNCHANGED <<ds, sample_index, data, buffer, ts_buffer, data_available,
                   running, reset_flag, attrs, sample_period, pc, frame, arg,
                   inLoad, outcome, raised, steps, waiters>>

\* a consumer that saw the event clears it: data_available.clear()
consume ==
    /\ data_available
    /\ data_available' = FALSE
    /\ raised' = <<>>
    /\ UNCHANGED <<ds, sample_index, data, buffer, ts_buffer, paused, running,
                   reset_flag, attrs, sample_period, pc, frame, arg, inLoad,
                   outcome, steps, waiters>>

Next ==
    \/ \E s \in Strides, l \in Loops : get_samples_call(s, l)
    \/ \E t \in Threads : get_samples(t)
    \/ reset_call
    \/ reset("ui")
    \/ \E a \in LoadArgs : load_dataset_call(a)
    \/ load_dataset("ui")
    \/ sample_loop
    \/ play
    \/ pause
    \/ consume

Spec == Init /\ [][Next]_vars

\* ------------------------------------------------- consumers of the signal
\* data_available.wait(): returns at once when the event is set, blocks otherwise
consumer_wait(c) ==
    /\ waiters[c] = "away"
    /\ waiters' = [waiters EXCEPT ![c] = IF data_available THEN "woken" ELSE "waiting"]
    /\ UNCHANGED <<shared, pc, frame, arg, inLoad, outcome, raised, steps>>

\* the woken consumer handles the chunk and clears the event
consumer_clear(c) ==
    /\ waiters[c] = "woken"
    /\ data_available' = FALSE
    /\ raised' = <<>>
    /\ waiters' = [waiters EXCEPT ![c] = "away"]
    /\ UNCHANGED <<ds, sample_index, data, buffer, ts_buffer, paused, running,
                   reset_flag, attrs, sample_period, pc, frame, arg, inLoad,
                   outcome, steps>>

\* the program together with the consumers of its signal
NextSignal ==
    \/ Next
    \/ \E c \in Consumers : consumer_wait(c)
    \/ \E c \in Consumers : consumer_clear(c)

SpecSignal == Init /\ [][NextSignal]_vars

\* the same program with the inputs outside the documented domain as well: an
\* empty recording handed to load_dataset, and get_samples(stride=0, loop=0)
NextWide ==
    \/ Next
    \/ load_dataset_call("E")
    \/ get_samples_call(0, 0)

SpecWide == Init /\ [][NextWide]_vars


\* ------------------------------------------------- the cursor on its own
\* Lines 100 and 103 applied again and again by one thread, with one stride:
\* the cursor arithmetic of get_samples without the fetch and the history.
\* frame["ui"] holds the stride of the ticks and, in idx, the index the run
\* started from; steps counts the ticks applied.
CursorStores == {d \in Datasets : StoreLen[d] > 0}

CursorStrides == {s \in (0 - MaxStride)..MaxStride : s # 0}

InitCursor ==
    /\ ds \in CursorStores
    /\ sample_index \in 0..(StoreLen[ds] - 1)
    /\ \E s \in CursorStrides :
          frame = [t \in Threads |->
                     IF t = "ui" THEN [NoFrame EXCEPT !.stride = s, !.idx = sample_index]
                     ELSE NoFrame]
    /\ data = NoData
    /\ buffer = <<>>
    /\ ts_buffer = [exists |-> TRUE, items |-> <<>>]
    /\ data_available = FALSE
    /\ paused = TRUE
    /\ running = TRUE
    /\ reset_flag = TRUE
    /\ attrs = StoreAttrs[ds]
    /\ sample_period = StoreAttrs[ds].sample_size \div StoreAttrs[ds].sample_rate
    /\ pc = [t \in Threads |-> Home(t)]
    /\ arg = "none"
    /\ inLoad = FALSE
    /\ outcome = [t \in Threads |-> "none"]
    /\ raised = <<>>
    /\ steps = 0
    /\ waiters = [c \in Consumers |-> "away"]

\* lines 100 and 103 of one call, with no other thread in between
cursor_tick ==
    /\ steps < StoreLen[ds]
    /\ sample_index' = Advance(sample_index, frame["ui"].stride, StoreLen[ds])
    /\ outcome' = [outcome EXCEPT !["ui"] =
                     IF MoreData(sample_index', frame["ui"].stride, StoreLen[ds])
                     THEN "True" ELSE "False"]
    /\ steps' = steps + 1
    /\ UNCHANGED <<ds, data, buffer, ts_buffer, data_available, paused, running,
                   reset_flag, attrs, sample_period, pc, frame, arg, inLoad, raised, waiters>>

SpecCursor == InitCursor /\ [][cursor_tick]_vars

\* ================================================================== claims
\* the caller thread is between calls
Quiet == pc["ui"] = "idle"

\* a dataset with at least one chunk is loaded
Loaded == ds \in Stores /\ StoreLen[ds] > 0

\* the pair the j-th single step of a fresh playback of d appends
StepPair(d, j) == <<Chunk(d, (j - 1) % StoreLen[d]), (j - 1) % StoreLen[d]>>

\* C1: from a freshly loaded dataset of n chunks, with only single-step calls
\* get_samples(stride=1, loop=0) and no worker tick, the k-th call fetches
\* index (k-1) mod n, the cursor after k calls is k mod n (0 after n calls),
\* and the history is the k pairs (store[(j-1) mod n], (j-1) mod n), in order.
C1_SingleSteps ==
    (steps >= 0 /\ Loaded) =>
        /\ Quiet =>
             /\ sample_index = steps % StoreLen[ds]
             /\ buffer = [j \in 1..steps |-> StepPair(ds, j)]
        /\ pc["ui"] = "gs_pace" => data = StepPair(ds, steps + 1)[1]

C1_Witness ==
    /\ Quiet
    /\ ds = "A"
    /\ steps = StoreLen["A"]
    /\ sample_index = 0
    /\ Len(buffer) = StoreLen["A"]

\* C2: with a dataset of n > 0 chunks loaded, the cursor sample_index is in
\* [0, n) (stated for the states in which load_dataset has returned).
C2_CursorInRange ==
    (Quiet /\ Loaded) => sample_index \in 0..(StoreLen[ds] - 1)

\* C3: the history of (chunk, index) pairs never holds more than the
\* capacity of the ring.
C3_HistoryBounded == Len(buffer) <= Capacity

\* C4: whenever data_available is set, the pair appended by the tick that
\* set it is in the history.
C4_SignalledChunkPresent ==
    data_available => \E k \in 1..Len(buffer) : buffer[k] = raised

\* C5: reset clears the history and rewinds the cursor only after close()
\* has returned with the old worker exited: from the clear until run() no
\* sampling thread is alive, so no tick begun before the reset appends or
\* advances after it.
C5_ClearAfterJoin ==
    pc["ui"] \in {"r_clear", "r_index", "r_flag", "r_run"} =>
        pc["worker"] \in {"unstarted", "exited"}

C5_Witness ==
    /\ pc["ui"] = "r_join"
    /\ ~inLoad
    /\ pc["worker"] = "gs_app"

\* C6: once load_dataset(S2) has returned, the history holds no chunk
\* fetched from another dataset, and its first pair is S2's chunk 0.
C6_LoadResetsPlayback ==
    (Quiet /\ ds \in Stores) =>
        /\ \A k \in 1..Len(buffer) : buffer[k][1] # NoData => buffer[k][1][1] = ds
        /\ buffer # <<>> => buffer[1] = <<Chunk(ds, 0), 0>>

\* C7: get_samples without a dataset raises RuntimeError and leaves the
\* cursor, the history, the held chunk and data_available as they were.
C7_NotReadyChangesNothing ==
    [][\A t \in Threads :
         (pc[t] = "gs_check" /\ ds = "none" /\ pc'[t] # pc[t]) =>
             /\ outcome'[t] = "RuntimeError"
             /\ UNCHANGED <<sample_index, buffer, ts_buffer, data, data_available>>]_vars

C7_Witness ==
    /\ Quiet
    /\ ds = "none"
    /\ outcome["ui"] = "RuntimeError"

\* the thread is in a get_samples call whose loop argument is not -1, 0 or 1
BadLoopCall(t) == pc[t] \in InGetSamples /\ frame[t].loop \notin {-1, 0, 1}

\* C8: get_samples on a loaded dataset with loop outside {-1, 0, 1} ends in
\* ValueError; no step of the call appends to the history, raises
\* data_available or moves the cursor.
C8_BadLoopRejected ==
    [][\A t \in Threads :
         (BadLoopCall(t) /\ ds # "none" /\ pc'[t] # pc[t]) =>
             /\ UNCHANGED <<buffer, ts_buffer, data_available, sample_index>>
             /\ pc'[t] \notin InGetSamples => outcome'[t] = "ValueError"]_vars

C8_Witness ==
    /\ Quiet
    /\ ds \in Stores
    /\ outcome["ui"] = "ValueError"

\* C9: get_samples with loop outside {-1, 0, 1} performs no fetch: no step
\* of the call changes the held chunk, self.data.
C9_BadLoopNoFetch ==
    [][\A t \in Threads :
         (BadLoopCall(t) /\ pc'[t] # pc[t]) => data' = data]_vars

\* C10: a tick whose fetch was out of range appends nothing to the history
\* and does not raise data_available.
C10_FaultSkipsAppend ==
    [][\A t \in Threads :
         (frame[t].fault /\ pc'[t] # pc[t]) =>
             /\ buffer' = buffer
             /\ data_available' => data_available]_vars

\* C11: once reset() has cleared state, and before the restarted worker
\* produces a chunk, the cursor is 0 and every history buffer (the pair list
\* and the ring) is empty, with the dataset and its attributes unchanged.
C11_ResetClearsEverything ==
    (pc["ui"] = "r_run" /\ ~inLoad) =>
        /\ sample_index = 0
        /\ buffer = <<>>
        /\ ts_buffer.items = <<>>

\* C12: load_dataset(S) leaves the attributes of S, the cursor at 0 and an
\* empty history, whatever the state it was called in (so a second call with
\* the same store leaves what the first did).
C12_LoadIdempotent ==
    [][(pc["ui"] = "l_buf" /\ pc'["ui"] = "idle") =>
          /\ ds' = arg
          /\ attrs' = StoreAttrs[arg]
          /\ sample_period' = StoreAttrs[arg].sample_size \div StoreAttrs[arg].sample_rate
          /\ sample_index' = 0
          /\ buffer' = <<>>]_vars

C14_EmptyDatasetRejected ==
    ~ /\ ds \in Datasets
      /\ StoreLen[ds] = 0
      /\ \E t \in Threads : pc[t] \in InGetSamples \ {"gs_check"}

\* C15: get_samples(stride=0) on a loaded dataset is rejected with an error
\* and no step of the call appends to the history, raises data_available or
\* moves the cursor.
C15_ZeroStrideRejected ==
    [][\A t \in Threads :
         (pc[t] \in InGetSamples /\ frame[t].stride = 0 /\ ds # "none"
            /\ pc'[t] # pc[t]) =>
             /\ UNCHANGED <<buffer, data_available, sample_index>>
             /\ pc'[t] \notin InGetSamples => outcome'[t] \notin {"True", "False"}]_vars

RECURSIVE GCD(_, _)
GCD(a, b) == IF b = 0 THEN a ELSE GCD(b, a % b)

Abs(x) == IF x < 0 THEN 0 - x ELSE x

\* the number of ticks of stride s after which a cursor over n chunks is back
Period(s, n) == n \div GCD(Abs(s), n)

\* C16: for a positive stride that divides total_chunks (playback from index
\* 0), get_samples returns True on every call whose advance stays inside the
\* pass and False on exactly the call whose advance wraps past the start.
C16_MoreDataUntilWrap ==
    [][(steps' = steps + 1 /\ frame["ui"].idx = 0 /\ frame["ui"].stride > 0
          /\ StoreLen[ds] % frame["ui"].stride = 0) =>
          (outcome'["ui"] = "False" <=> sample_index + frame["ui"].stride >= StoreLen[ds])]_vars

\* C17: for n > 0 chunks, a non-zero stride s and a start index i in [0, n),
\* n / gcd(|s|, n) ticks of stride s bring the cursor back to i, and no
\* smaller positive number of ticks does.
C17_CursorPeriod ==
    (steps >= 1 /\ steps <= Period(frame["ui"].stride, StoreLen[ds])) =>
        (sample_index = frame["ui"].idx <=> steps = Period(frame["ui"].stride, StoreLen[ds]))

C17_Witness ==
    /\ ds = "F"
    /\ frame["ui"].stride = -2
    /\ frame["ui"].idx = 1
    /\ steps = 3
    /\ sample_index = 1

\* C18: each tick that appends a chunk raises the signal once, no step of
\* get_samples clears it, and with two consumers waiting on the signal one
\* produced chunk wakes exactly one of them.
C18_OneConsumerPerChunk ==
    [][\A t \in Threads :
         (pc[t] \in InGetSamples /\ pc'[t] # pc[t]) =>
             /\ data_available => data_available'
             /\ (pc[t] = "gs_app") => (pc'[t] = "gs_ts" \/ pc'[t] = "gs_set")
             /\ (pc[t] = "gs_set" /\ \A c \in Consumers : waiters[c] = "waiting") =>
                   Cardinality({c \in Consumers : waiters'[c] = "woken"}) = 1]_vars

\* C19: under any interleaving of the worker's ticks with single steps of
\* the caller, every pair (chunk, i) of the history holds the chunk the
\* loaded dataset stores at index i (stated for whichever dataset the pair
\* was read from, so that a reload in between is not what is at stake).
C19_PairsMatchStore ==
    \A k \in 1..Len(buffer) : \E d \in Stores : buffer[k][1] = Chunk(d, buffer[k][2])

\* C20: while no dataset is loaded nothing is played back: the history and
\* the ring stay empty, the cursor stays 0, the signal is never raised, and
\* the controller, until its first reset, is paused.
C20_NoPlaybackBeforeLoad ==
    ds = "none" =>
        /\ buffer = <<>>
        /\ ts_buffer.items = <<>>
        /\ sample_index = 0
        /\ data = NoData
        /\ ~data_available
        /\ raised = <<>>
        /\ ~reset_flag => paused

C20_Witness ==
    /\ ds = "none"
    /\ reset_flag
    /\ ~paused
    /\ pc["worker"] = "exited"
    /\ outcome["worker"] = "RuntimeError"
    /\ outcome["ui"] = "RuntimeError"

====
